---- MODULE Spec2Model ----
(***************************************************************************)
(* Model of the ARA callback plugin (ara/plugins/callbacks/log_ara.py):    *)
(* a recorder that receives Ansible lifecycle hooks one at a time and      *)
(* writes playbook / play / task / host / file / result rows through a     *)
(* SQLAlchemy unit-of-work session.                                        *)
(*                                                                         *)
(* Every ORM object ever constructed is one row of the heap `objs`; an     *)
(* object reference is its index in the heap (None = 0).  `store` holds    *)
(* the committed image of each object (Absent while never committed),      *)
(* `session` the objects attached to db.session, `dirty` the objects with  *)
(* state not yet written.  Each hook is one action: the whole handler,     *)
(* including the commit the CommitAfter metaclass appends to every public  *)
(* method (helpers included), is evaluated as a chain of functions over a  *)
(* recorder-state record.                                                  *)
(***************************************************************************)
EXTENDS Integers, Sequences, FiniteSets, TLC

VARIABLES
    objs,            \* heap of ORM objects (records with a `kind`)
    store,           \* committed image of objs (same indices)
    session,         \* objects attached to db.session
    dirty,           \* objects carrying unflushed state
    playbook,        \* self.playbook
    play,            \* self.play
    task,            \* self.task
    result,          \* self.result
    loop_items,      \* self.loop_items
    tmpfile,         \* content of ARA_TMP_DIR/ara.json (None: not written)
    now,             \* the wall clock read by datetime.utcnow(); every hook
                     \* runs at a later instant than the one before
    ansible_version, \* ansible.__version__ of the host tool
    options,         \* cli.options of the host process (self._options)
    fs,              \* the file system: path -> bytes, or Unreadable
    nhooks,          \* number of hooks delivered so far
    last             \* the hook delivered last: name, outcome, internal calls

vars == <<objs, store, session, dirty, playbook, play, task, result,
          loop_items, tmpfile, now, ansible_version, options, fs, nhooks,
          last>>

----------------------------------------------------------------------------
(* Bounds of the model *)

MaxHooks == 4
MaxItems == 2

----------------------------------------------------------------------------
(* Environment: inputs the host process and the file system can supply *)

None == 0
Absent == [kind |-> "absent"]

HostOrder == <<"h1", "h2">>
HostNames == {HostOrder[i] : i \in DOMAIN HostOrder}

PlaybookFileNames == {"site.yml"}
AbsPath == [n \in PlaybookFileNames |-> "/p/site.yml"]

TaskPaths == {"/p/site.yml", "/p/copy.yml", "/p/gone.yml"}
Unreadable == "<IOError>"
FileData ==
    [p \in TaskPaths |->
        CASE p = "/p/site.yml" -> "A"
          [] p = "/p/copy.yml" -> "A"
          [] OTHER -> Unreadable]

PathSpecs == {<<>>} \cup {<<p, "3">> : p \in TaskPaths \ {AbsPath[n] : n \in PlaybookFileNames}}
Actions == {"setup", "debug"}
HandlerActions == {"debug"}
ItemPayloads == {"i1"}
Payloads == {[body |-> "r", ansible_facts |-> TRUE]}
Summaries ==
    {[changed |-> 1, unreachable |-> 0, failures |-> 0, ok |-> 1, skipped |-> 0]}
Processed == {{}, {"h1"}, HostNames}
HostLists == {<<>>, <<"h1">>, <<"h1", "h2">>}
Versions == {<<2, 1, 0>>, <<2, 3, 0>>}
IncludedFiles == {"/p/copy.yml"}

\* cli.options: absent (no CLI), or a dictionary of run parameters
OptionValues == [password |-> "secret", verbosity |-> "2", extra_vars |-> "x=1"]
OptionChoices ==
    {[present |-> FALSE, dict |-> <<>>]} \cup
    {[present |-> TRUE, dict |-> [k \in ks |-> OptionValues[k]]] :
        ks \in SUBSET DOMAIN OptionValues}
DefaultOptions ==
    [present |-> TRUE,
     dict |-> [k \in {"password", "verbosity"} |-> OptionValues[k]]]
FsChoices == {FileData, [FileData EXCEPT !["/p/site.yml"] = Unreadable]}

\* app.config['ARA_IGNORE_PARAMETERS'] and the text that replaces a value
ARA_IGNORE_PARAMETERS == <<"extra_vars", "password">>
Sentinel == "Parameter not saved by ARA due to configuration"

----------------------------------------------------------------------------
(* db.session: the unit of work *)

S0 ==
    [objs |-> objs, store |-> store, session |-> session, dirty |-> dirty,
     playbook |-> playbook, play |-> play, task |-> task, result |-> result,
     loop_items |-> loop_items, tmpfile |-> tmpfile, options |-> options,
     exc |-> FALSE, rval |-> None, log |-> <<>>]

Raise(s) == [s EXCEPT !.exc = TRUE]

RefFields(row) ==
    CASE row.kind = "Play" -> {row.playbook}
      [] row.kind = "Task" -> {row.playbook, row.play, row.file}
      [] row.kind = "Host" -> {row.playbook}
      [] row.kind = "File" -> {row.playbook, row.content}
      [] row.kind = "Result" -> {row.playbook, row.play, row.task, row.host}
      [] OTHER -> {}

Refs(s, set) == set \cup (UNION {RefFields(s.objs[i]) : i \in set} \ {None})

\* save-update cascade: an added object brings the objects it references
Cascade(s, i) == Refs(s, Refs(s, Refs(s, {i})))

\* a freshly constructed object: on the heap, nothing committed, not attached
NewObj(s, row) ==
    [s EXCEPT !.objs = Append(@, row), !.store = Append(@, Absent),
              !.dirty = @ \cup {Len(s.objs) + 1}, !.rval = Len(s.objs) + 1]

session_add(s, i) == [s EXCEPT !.session = @ \cup Cascade(s, i)]

\* attribute assignment on an object; the session follows new references
SetAttrs(s, i, row) ==
    LET t == [s EXCEPT !.objs[i] = row, !.dirty = @ \cup {i}]
    IN  IF i \in s.session THEN session_add(t, i) ELSE t

\* flush: pending state of attached objects is written to the transaction,
\* primary keys are assigned
session_flush(s) ==
    [s EXCEPT !.objs =
        [i \in DOMAIN s.objs |->
            IF i \in s.session /\ i \in s.dirty /\ s.objs[i].id = None
            THEN [s.objs[i] EXCEPT !.id = i] ELSE s.objs[i]]]

session_commit(s) ==
    LET f == session_flush(s)
    IN  [f EXCEPT !.store =
                [i \in DOMAIN f.objs |->
                    IF i \in f.session /\ i \in f.dirty
                    THEN f.objs[i] ELSE f.store[i]],
            !.dirty = @ \ f.session,
            !.log = Append(@, "commit")]

session_close(s) ==
    [s EXCEPT !.session = {}, !.log = Append(@, "session_close")]

\* rows a query sees after autoflush: committed ones and those flushed in
\* the open transaction
Query(s, kind) ==
    {i \in DOMAIN s.objs :
        /\ s.objs[i].kind = kind
        /\ (s.store[i].kind # "absent" \/ (i \in s.session /\ i \in s.dirty))}

Load(s, set) == [s EXCEPT !.session = @ \cup set]

\* the wrapper the metaclass puts around every public method
CommitAfter(s) == IF s.exc THEN s ELSE session_commit(s)

----------------------------------------------------------------------------
(* ara.db.models: constructors, start() and stop() *)

utcnow == now

Playbook(version, path, parameters) ==
    [kind |-> "Playbook", id |-> None, ansible_version |-> version,
     path |-> path, parameters |-> parameters, started |-> None,
     ended |-> None, completed |-> FALSE]

Play(pb) ==
    [kind |-> "Play", id |-> None, playbook |-> pb, started |-> None,
     ended |-> None]

Task(act, pl, pb, file_, lineno, handler) ==
    [kind |-> "Task", id |-> None, action |-> act, play |-> pl,
     playbook |-> pb, file |-> file_, lineno |-> lineno, handler |-> handler,
     started |-> None, ended |-> None]

ZeroStats ==
    [changed |-> 0, unreachable |-> 0, failures |-> 0, ok |-> 0, skipped |-> 0]

Host(name, pb) ==
    [kind |-> "Host", id |-> None, name |-> name, playbook |-> pb,
     stats |-> ZeroStats, facts |-> FALSE]

File(path, pb) ==
    [kind |-> "File", id |-> None, path |-> path, playbook |-> pb,
     content |-> None, is_playbook |-> FALSE]

content_sha1(data) == <<"sha1", data>>

FileContent(data) ==
    [kind |-> "FileContent", id |-> None, content |-> data,
     sha1 |-> content_sha1(data)]

Result(pb, pl, tk, host, started, ended, res, status) ==
    [kind |-> "Result", id |-> None, playbook |-> pb, play |-> pl,
     task |-> tk, host |-> host, started |-> started, ended |-> ended,
     result |-> res, status |-> status]

start(s, i) == [s EXCEPT !.objs[i].started = utcnow, !.dirty = @ \cup {i}]
stop(s, i) == [s EXCEPT !.objs[i].ended = utcnow, !.dirty = @ \cup {i}]

IdOf(s, ref) == IF ref = None THEN None ELSE s.objs[ref].id

----------------------------------------------------------------------------
(* CallbackModule: helpers.  Each public method is its body followed by the
   commit of CommitAfter. *)

\* the helper without its lookup: a Host row for every reference
get_or_create_host_nolookup(s, hostname) ==
    IF s.playbook = None THEN Raise(s)
    ELSE LET n == NewObj(session_flush(s), Host(hostname, s.playbook))
         IN  session_add(n, n.rval)

get_or_create_host_body(s, hostname) ==
    IF s.playbook = None THEN Raise(s)
    ELSE
        LET pid == s.objs[s.playbook].id
            f == session_flush(s)
            found == {i \in Query(f, "Host") :
                        /\ f.objs[i].name = hostname
                        /\ IdOf(f, f.objs[i].playbook) = pid}
        IN  IF Cardinality(found) > 1 THEN Raise(f)
            ELSE IF found # {}
            THEN [Load(f, found) EXCEPT !.rval = CHOOSE i \in found : TRUE]
            ELSE LET n == NewObj(f, Host(hostname, f.playbook))
                 IN  session_add(n, n.rval)

get_or_create_host(s, hostname) == CommitAfter(get_or_create_host_body(s, hostname))

\* the read without the lookup by hash: a FileContent row for every File
ReadContent_nodedup(s, file_, path) ==
    IF path \notin DOMAIN fs \/ fs[path] = Unreadable THEN s
    ELSE LET n == NewObj(session_flush(s), FileContent(fs[path]))
         IN  SetAttrs(n, file_, [n.objs[file_] EXCEPT !.content = n.rval])

ReadContent_raise(s, file_, path) ==
    IF path \notin DOMAIN fs \/ fs[path] = Unreadable THEN Raise(s)
    ELSE ReadContent_nodedup(s, file_, path)

\* lines 125-136: read the file, share the FileContent row of its hash
ReadContent(s, file_, path) ==
    IF path \notin DOMAIN fs \/ fs[path] = Unreadable THEN s
    ELSE
        LET data == fs[path]
            sha1 == content_sha1(data)
            f == session_flush(s)
            found == {i \in Query(f, "FileContent") : f.objs[i].sha1 = sha1}
        IN  IF Cardinality(found) > 1 THEN Raise(f)
            ELSE IF found # {}
            THEN LET c == CHOOSE i \in found : TRUE
                 IN  SetAttrs(Load(f, found), file_,
                              [f.objs[file_] EXCEPT !.content = c])
            ELSE LET n == NewObj(f, FileContent(data))
                 IN  SetAttrs(n, file_, [n.objs[file_] EXCEPT !.content = n.rval])

get_or_create_file_body_nolookup(s, path) ==
    IF s.playbook = None THEN Raise(s)
    ELSE LET n == NewObj(s, File(path, s.playbook))
             a == session_add(n, n.rval)
             r == ReadContent(a, n.rval, path)
         IN  [r EXCEPT !.rval = n.rval]

get_or_create_file_body(s, path) ==
    IF s.playbook = None THEN Raise(s)
    ELSE
        LET pid == s.objs[s.playbook].id
            f == IF pid # None THEN session_flush(s) ELSE s
            found == IF pid = None THEN {}
                     ELSE {i \in Query(f, "File") :
                             /\ f.objs[i].path = path
                             /\ IdOf(f, f.objs[i].playbook) = pid}
        IN  IF Cardinality(found) > 1 THEN Raise(f)
            ELSE IF found # {}
            THEN [Load(f, found) EXCEPT !.rval = CHOOSE i \in found : TRUE]
            ELSE LET n == NewObj(f, File(path, f.playbook))
                     a == session_add(n, n.rval)
                     r == ReadContent(a, n.rval, path)
                 IN  [r EXCEPT !.rval = n.rval]

get_or_create_file(s, path) == CommitAfter(get_or_create_file_body(s, path))

\* CallbackBase._dump_results: the payload serialised to a JSON string
dump_results(payload) == [json |-> payload]

\* jsonutils.loads: decodes one JSON string; anything else is a TypeError
IsJsonText(x) == DOMAIN x = {"json"}
jsonutils_loads(x) == x.json

results(res, items) ==
    IF items # <<>>
    THEN [list |-> <<dump_results(res.payload)>> \o
                   [k \in DOMAIN items |-> dump_results(items[k])]]
    ELSE dump_results(res.payload)

log_task_body_hostfirst(s, res, status) ==
    LET h == get_or_create_host(s, res.host)
    IN  IF h.exc THEN h ELSE Raise(h)

log_task_body(s, res, status) ==
    IF s.task = None THEN Raise(s)
    ELSE
        LET task_start == s.objs[s.task].started
            task_end == utcnow
            h == get_or_create_host(s, res.host)
            dumped == results(res, h.loop_items)
        IN  IF h.exc THEN h
            ELSE IF ~IsJsonText(dumped) THEN Raise(h)
            ELSE
                LET n == NewObj(h, Result(h.playbook, h.play, h.task, h.rval,
                                          task_start, task_end,
                                          jsonutils_loads(dumped), status))
                    a == session_add([n EXCEPT !.result = n.rval], n.rval)
                IN  IF a.objs[a.task].action = "setup" /\ res.payload.ansible_facts
                    THEN SetAttrs(a, h.rval, [a.objs[h.rval] EXCEPT !.facts = TRUE])
                    ELSE a

log_task(s, res, status) == CommitAfter(log_task_body(s, res, status))

RECURSIVE log_stats_loop(_, _, _)
log_stats_loop(s, hosts, summary) ==
    IF hosts = <<>> \/ s.exc THEN s
    ELSE
        LET h == get_or_create_host(s, Head(hosts))
        IN  IF h.exc THEN h
            ELSE log_stats_loop(
                    SetAttrs(h, h.rval, [h.objs[h.rval] EXCEPT !.stats = summary]),
                    Tail(hosts), summary)

sorted(names) == SelectSeq(HostOrder, LAMBDA n : n \in names)

log_stats_body(s, processed, summary) ==
    log_stats_loop([s EXCEPT !.log = Append(@, "log_stats")], sorted(processed), summary)

log_stats(s, processed, summary) == CommitAfter(log_stats_body(s, processed, summary))

close_task_body_nostop(s) ==
    IF s.task # None
    THEN LET t == session_add(s, s.task)
         IN  [t EXCEPT !.task = None, !.loop_items = <<>>,
                       !.log = Append(@, "close_task")]
    ELSE s

close_task_body(s) ==
    IF s.task # None
    THEN LET t == session_add(stop(s, s.task), s.task)
         IN  [t EXCEPT !.task = None, !.loop_items = <<>>,
                       !.log = Append(@, "close_task")]
    ELSE s

close_task(s) == CommitAfter(close_task_body(s))

\* close_play that drops the pointer without stamping the Play
close_play_body_nostop(s) ==
    IF s.play # None
    THEN [s EXCEPT !.play = None, !.log = Append(@, "close_play")]
    ELSE s

close_play_body(s) ==
    IF s.play # None
    THEN LET t == session_add(stop(s, s.play), s.play)
         IN  [t EXCEPT !.play = None, !.log = Append(@, "close_play")]
    ELSE s

close_play(s) == CommitAfter(close_play_body(s))

close_playbook_body(s) ==
    IF s.playbook # None
    THEN LET t == stop(s, s.playbook)
             c == [t EXCEPT !.objs[s.playbook].completed = TRUE]
         IN  [session_add(c, s.playbook) EXCEPT !.log = Append(@, "close_playbook")]
    ELSE s

\* close_playbook as a private helper: not wrapped, so not committed
close_playbook_nocommit(s) == close_playbook_body(s)

close_playbook(s) == CommitAfter(close_playbook_body(s))

----------------------------------------------------------------------------
(* CallbackModule: the hooks the host process calls *)

v2_runner_item_on_ok(s, item) == [s EXCEPT !.loop_items = Append(@, item)]

v2_runner_item_on_failed(s, item) == [s EXCEPT !.loop_items = Append(@, item)]

v2_runner_item_on_skipped(s, item) == [s EXCEPT !.loop_items = Append(@, item)]

v2_runner_retry(s, item) == [s EXCEPT !.loop_items = Append(@, item)]

v2_runner_on_ok(s, res) == log_task(s, res, "ok")

v2_runner_on_unreachable(s, res) == log_task(s, res, "unreachable")

v2_runner_on_failed(s, res) == log_task(s, res, "failed")

v2_runner_on_skipped(s, res) == log_task(s, res, "skipped")

v2_playbook_on_task_start(s, act, pathspec, handler) ==
    LET c == close_task(s)
        \* pathspec.split(':', 1); without a pathspec the playbook's own path
        usepb == pathspec = <<>>
        f == IF usepb
             THEN IF c.playbook = None THEN Raise(c)
                  ELSE get_or_create_file(c, c.objs[c.playbook].path)
             ELSE get_or_create_file(c, pathspec[1])
        lineno == IF usepb THEN "1" ELSE pathspec[2]
    IN  IF f.exc THEN f
        ELSE LET n == NewObj(f, Task(act, f.play, f.playbook, f.rval, lineno, handler))
                 t == start([n EXCEPT !.task = n.rval], n.rval)
             IN  session_add(t, n.rval)

v2_playbook_on_handler_task_start(s, act, pathspec) ==
    v2_playbook_on_task_start(s, act, pathspec, TRUE)

RECURSIVE sanitize_addkeys(_, _)
sanitize_addkeys(parameters, ignore) ==
    IF ignore = <<>> THEN parameters
    ELSE sanitize_addkeys(
            [k \in DOMAIN parameters \cup {Head(ignore)} |->
                IF k = Head(ignore) THEN Sentinel ELSE parameters[k]],
            Tail(ignore))

\* lines 301-304: every configured key that is present gets the sentinel
RECURSIVE sanitize(_, _)
sanitize(parameters, ignore) ==
    IF ignore = <<>> THEN parameters
    ELSE sanitize(IF Head(ignore) \in DOMAIN parameters
                  THEN [parameters EXCEPT ![Head(ignore)] = Sentinel]
                  ELSE parameters,
                  Tail(ignore))

v2_playbook_on_start_writefirst(s, file_name, writable) ==
    LET path == AbsPath[file_name]
        n == NewObj(s, Playbook(ansible_version, path, <<>>))
        p == session_add(start([n EXCEPT !.playbook = n.rval], n.rval), n.rval)
        w == [p EXCEPT !.tmpfile = p.objs[p.playbook].id,
                       !.log = Append(@, "handoff")]
        f == get_or_create_file(w, path)
    IN  IF f.exc THEN f
        ELSE IF writable
        THEN SetAttrs(f, f.rval, [f.objs[f.rval] EXCEPT !.is_playbook = TRUE])
        ELSE Raise(f)

v2_playbook_on_start(s, file_name, writable) ==
    LET path == AbsPath[file_name]
        \* self._options.__dict__.copy(): the host's object is not touched
        parameters == sanitize(IF s.options.present THEN s.options.dict ELSE <<>>,
                               ARA_IGNORE_PARAMETERS)
        n == NewObj(s, Playbook(ansible_version, path, parameters))
        p == session_add(start([n EXCEPT !.playbook = n.rval], n.rval), n.rval)
        f == get_or_create_file(p, path)
        m == SetAttrs(f, f.rval, [f.objs[f.rval] EXCEPT !.is_playbook = TRUE])
    IN  IF f.exc THEN f
        ELSE IF writable
        THEN [m EXCEPT !.tmpfile = m.objs[m.playbook].id,
                       !.log = Append(@, "handoff")]
        ELSE Raise(m)

v2_playbook_on_play_start(s) ==
    LET c == close_play(close_task(s))
        d == IF c.play # None THEN stop(c, c.play) ELSE c
        n == NewObj(d, Play(d.playbook))
    IN  session_add(start([n EXCEPT !.play = n.rval], n.rval), n.rval)

\* the run-end hook closing the session before it closes the playbook
v2_playbook_on_stats_closefirst(s, processed, summary) ==
    LET l == log_stats(s, processed, summary)
    IN  IF l.exc THEN l
        ELSE close_playbook(session_close(close_play(close_task(l))))

v2_playbook_on_stats(s, processed, summary) ==
    LET l == log_stats(s, processed, summary)
    IN  IF l.exc THEN l
        ELSE session_close(close_playbook(close_play(close_task(l))))

LooseVersionLess(a, b) ==
    \E k \in 1..3 : a[k] < b[k] /\ \A j \in 1..(k - 1) : a[j] = b[j]

IncludeResult(host, path) ==
    [host |-> host, payload |-> [included_file |-> path, ansible_facts |-> FALSE]]

RECURSIVE include_loop(_, _, _)
include_loop(s, hosts, filename) ==
    IF hosts = <<>> \/ s.exc THEN s
    ELSE include_loop(log_task(s, IncludeResult(Head(hosts), filename), "ok"),
                      Tail(hosts), filename)

v2_playbook_on_include(s, hosts, filename) ==
    IF LooseVersionLess(ansible_version, <<2, 2, 0>>)
    THEN include_loop(s, hosts, filename)
    ELSE s

----------------------------------------------------------------------------
(* The host process: one hook at a time, each wrapped by CommitAfter.  `last`
   records the hook by its class: "start", "play_start", "task_start" (also
   the handler alias), "item" (the three item hooks and retry), "outcome"
   (ok / unreachable / failed / skipped), "stats", "include"; `arg` keeps the
   host list of an include event and, for a start event, whether the
   handoff file can be written. *)

Deliver(name, arg, body) ==
    LET c == CommitAfter(body)
    IN  /\ nhooks < MaxHooks
        /\ objs' = c.objs
        /\ store' = c.store
        /\ session' = c.session
        /\ dirty' = c.dirty
        /\ playbook' = c.playbook
        /\ play' = c.play
        /\ task' = c.task
        /\ result' = c.result
        /\ loop_items' = c.loop_items
        /\ tmpfile' = c.tmpfile
        /\ nhooks' = nhooks + 1
        /\ options' = c.options
        /\ last' = [hook |-> name, arg |-> arg, exc |-> c.exc, log |-> c.log]
        /\ now' = now + 1
        /\ UNCHANGED <<ansible_version, fs>>

TaskResults == {[host |-> h, payload |-> p] : h \in HostNames, p \in Payloads}

OnStart ==
    \E n \in PlaybookFileNames, w \in BOOLEAN :
        Deliver("start", <<w>>, v2_playbook_on_start(S0, n, w))

OnPlayStart == Deliver("play_start", <<>>, v2_playbook_on_play_start(S0))

OnTaskStart ==
    \E a \in Actions, ps \in PathSpecs :
        Deliver("task_start", <<>>,
                v2_playbook_on_task_start(S0, a, ps, FALSE))

OnHandlerTaskStart ==
    \E a \in HandlerActions, ps \in PathSpecs :
        Deliver("task_start", <<>>,
                v2_playbook_on_handler_task_start(S0, a, ps))

OnItemOk ==
    \E i \in ItemPayloads :
        /\ Len(loop_items) < MaxItems
        /\ Deliver("item", <<>>, v2_runner_item_on_ok(S0, i))

OnItemFailed ==
    \E i \in ItemPayloads :
        /\ Len(loop_items) < MaxItems
        /\ Deliver("item", <<>>, v2_runner_item_on_failed(S0, i))

OnItemSkipped ==
    \E i \in ItemPayloads :
        /\ Len(loop_items) < MaxItems
        /\ Deliver("item", <<>>, v2_runner_item_on_skipped(S0, i))

OnRetry ==
    \E i \in ItemPayloads :
        /\ Len(loop_items) < MaxItems
        /\ Deliver("item", <<>>, v2_runner_retry(S0, i))

OnOk == \E r \in TaskResults : Deliver("outcome", <<>>, v2_runner_on_ok(S0, r))

OnUnreachable ==
    \E r \in TaskResults :
        Deliver("outcome", <<>>, v2_runner_on_unreachable(S0, r))

OnFailed ==
    \E r \in TaskResults : Deliver("outcome", <<>>, v2_runner_on_failed(S0, r))

OnSkipped ==
    \E r \in TaskResults : Deliver("outcome", <<>>, v2_runner_on_skipped(S0, r))

OnStats ==
    \E hs \in Processed, sm \in Summaries :
        Deliver("stats", <<>>, v2_playbook_on_stats(S0, hs, sm))

OnInclude ==
    \E hs \in HostLists, p \in IncludedFiles :
        Deliver("include", hs, v2_playbook_on_include(S0, hs, p))

InitRecorder ==
    /\ objs = <<>>
    /\ store = <<>>
    /\ session = {}
    /\ dirty = {}
    /\ playbook = None
    /\ play = None
    /\ task = None
    /\ result = None
    /\ loop_items = <<>>
    /\ tmpfile = None
    /\ now = 1
    /\ nhooks = 0
    /\ last = [hook |-> "__init__", arg |-> <<>>, exc |-> FALSE, log |-> <<>>]

Init ==
    /\ InitRecorder
    /\ ansible_version \in Versions
    /\ options = DefaultOptions
    /\ fs = FileData

Next ==
    \/ OnStart
    \/ OnPlayStart
    \/ OnTaskStart
    \/ OnHandlerTaskStart
    \/ OnItemOk
    \/ OnItemFailed
    \/ OnItemSkipped
    \/ OnRetry
    \/ OnOk
    \/ OnUnreachable
    \/ OnFailed
    \/ OnSkipped
    \/ OnStats
    \/ OnInclude

Spec == Init /\ [][Next]_vars

\* The same recorder started under every CLI option set and with the
\* playbook file readable or not; the hooks that resolve files.
InitEnv ==
    /\ InitRecorder
    /\ ansible_version = <<2, 3, 0>>
    /\ options \in OptionChoices
    /\ fs \in FsChoices

NextEnv ==
    \/ OnStart
    \/ OnTaskStart

SpecEnv == InitEnv /\ [][NextEnv]_vars

----------------------------------------------------------------------------
(* Views of the state used by the properties *)

Kind(k) == {i \in DOMAIN objs : objs[i].kind = k}

\* the rows the store holds durably
Committed == {<<i, store[i]>> : i \in {j \in DOMAIN store : store[j].kind # "absent"}}

OpenPlays == {i \in Kind("Play") : objs[i].ended = None}

HookStep == nhooks' = nhooks + 1

Returned(hook) == last.hook = hook /\ ~last.exc

Before(log, a, b) ==
    \A i, j \in DOMAIN log : (log[i] = a /\ log[j] = b) => i < j

StoredResultsOf(tk) ==
    {i \in DOMAIN store : store[i].kind = "Result" /\ store[i].task = tk}

----------------------------------------------------------------------------
(* C1: at most one Play is open at any time, and right after a play-start
   hook the Play that was open before it has an end timestamp, in memory
   and in the store, that is not earlier than its start timestamp. *)
C1_OnePlayOpen ==
    [][/\ Cardinality(OpenPlays') <= 1
       /\ (HookStep /\ last'.hook = "play_start" /\ play # None) =>
            /\ objs'[play].ended # None
            /\ objs'[play].ended >= objs'[play].started
            /\ store'[play] = objs'[play]
            /\ play' # play]_vars

C1_Witness ==
    /\ Returned("play_start")
    /\ play # None
    /\ objs[play].ended = None
    /\ \E i \in Kind("Play") :
        i # play /\ objs[i].ended # None /\ objs[i].ended >= objs[i].started

(* C2: when the run-end hook has returned, the current-task and
   current-play pointers are empty, every Task and Play carries an end
   timestamp, the buffer of pending items is empty whenever a Task was
   closed by the hook, the Playbook is ended and completed, all of it
   committed; the closes ran in the order task, play, playbook and the
   session was closed after them. *)
C2_FinishCloses ==
    Returned("stats") =>
        /\ task = None
        /\ play = None
        /\ \A i \in Kind("Task") \cup Kind("Play") :
            objs[i].ended # None /\ store[i] = objs[i]
        /\ ("close_task" \in {last.log[k] : k \in DOMAIN last.log}) => loop_items = <<>>
        /\ playbook # None =>
            /\ objs[playbook].ended # None
            /\ objs[playbook].completed
            /\ store[playbook] = objs[playbook]
            /\ "close_playbook" \in {last.log[k] : k \in DOMAIN last.log}
        /\ "session_close" \in {last.log[k] : k \in DOMAIN last.log}
        /\ Before(last.log, "close_task", "close_play")
        /\ Before(last.log, "close_task", "close_playbook")
        /\ Before(last.log, "close_play", "close_playbook")
        /\ Before(last.log, "close_task", "session_close")
        /\ Before(last.log, "close_play", "session_close")
        /\ Before(last.log, "close_playbook", "session_close")

C2_Witness ==
    /\ Returned("stats")
    /\ playbook # None
    /\ {"close_task", "close_play", "close_playbook"} \subseteq
            {last.log[k] : k \in DOMAIN last.log}
    /\ Kind("Task") # {}
    /\ Kind("Play") # {}

(* C3: a run-end hook on a Playbook that is already completed changes
   nothing of the Playbook: its end timestamp is not stamped again. *)
C3_FinishIdempotent ==
    [][(/\ HookStep
        /\ last'.hook = "stats"
        /\ ~last'.exc
        /\ playbook # None
        /\ objs[playbook].completed) =>
            /\ objs'[playbook] = objs[playbook]
            /\ store'[playbook] = store[playbook]]_vars

(* C4: an outcome hook processed with a Task open and n items buffered
   persists n + 1 Result rows for that Task (exactly one when the buffer
   is empty). *)
C4_ItemsPlusPrimary ==
    [][(HookStep /\ last'.hook = "outcome" /\ task # None) =>
            Cardinality(StoredResultsOf(task)') =
                Cardinality(StoredResultsOf(task)) + Len(loop_items) + 1]_vars

(* C5: a hook that raises commits nothing: the store after it holds the
   rows it held before. *)
C5_NoPartialCommit ==
    [][(HookStep /\ last'.exc) => Committed' = Committed]_vars

(* C6: when a hook has returned without raising, every object the
   recorder made or changed is in the store as it is in memory, and
   nothing is left unflushed; the run-end hook commits before it closes
   the session. *)
C6_CommittedOnReturn ==
    ~last.exc =>
        /\ dirty = {}
        /\ \A i \in DOMAIN objs : store[i] = objs[i]
        /\ \A k \in DOMAIN last.log :
            (last.log[k] = "session_close" /\ k > 1) => last.log[k - 1] = "commit"

C6_Witness ==
    /\ Returned("stats")
    /\ playbook # None
    /\ objs[playbook].completed
    /\ store[playbook].completed
    /\ \E h \in Kind("Host") : store[h].stats # ZeroStats

(* C7: a run-start hook on a recorder that already has a Playbook raises
   and leaves the current Playbook, the store and the handoff file as
   they were. *)
C7_SecondStartFails ==
    [][(HookStep /\ last'.hook = "start" /\ playbook # None) =>
            /\ last'.exc
            /\ playbook' = playbook
            /\ Committed' = Committed
            /\ tmpfile' = tmpfile
            /\ Kind("Playbook")' = Kind("Playbook")]_vars

(* C8: a hook other than run-start delivered before any run-start raises,
   creates no object, leaves the recorder's pointers and buffer as they
   were and commits nothing. *)
C8_FailFastBeforeStart ==
    [][(HookStep /\ last'.hook # "start" /\ playbook = None) =>
            /\ last'.exc
            /\ objs' = objs
            /\ play' = play
            /\ task' = task
            /\ loop_items' = loop_items
            /\ Committed' = Committed]_vars

(* C9: no two Host rows have the same name and the same Playbook, in
   memory or in the store. *)
C9_HostUnique ==
    \A i, j \in Kind("Host") :
        (objs[i].name = objs[j].name /\ objs[i].playbook = objs[j].playbook)
            => i = j

C9_Witness ==
    /\ Returned("stats")
    /\ \E h \in Kind("Host") :
        /\ store[h].stats # ZeroStats
        /\ \E r \in Kind("Result") : objs[r].host = h

(* C10: no two FileContent rows have the same hash, and two File rows made
   from the same readable bytes reference the same FileContent row. *)
C10_ContentShared ==
    /\ \A i, j \in Kind("FileContent") : objs[i].sha1 = objs[j].sha1 => i = j
    /\ \A f, g \in Kind("File") :
        (/\ fs[objs[f].path] # Unreadable
         /\ fs[objs[f].path] = fs[objs[g].path]) =>
            /\ objs[f].content # None
            /\ objs[f].content = objs[g].content
            /\ objs[objs[f].content].sha1 = content_sha1(fs[objs[f].path])

C10_Witness ==
    \E f, g \in Kind("File") :
        /\ objs[f].path # objs[g].path
        /\ objs[f].content # None
        /\ objs[f].content = objs[g].content
        /\ store[f].content = store[g].content

----------------------------------------------------------------------------
\* rows constructed by the hook of this step
NewRows(k) == {i \in DOMAIN objs' : i > Len(objs) /\ objs'[i].kind = k}

Range(seq) == {seq[k] : k \in DOMAIN seq}

Legacy == LooseVersionLess(ansible_version, <<2, 2, 0>>)

\* item payloads carried by a Result row
ItemsOf(row) ==
    IF "list" \in DOMAIN row.result
    THEN {row.result.list[k] : k \in DOMAIN row.result.list \ {1}}
    ELSE {}

(* C11: no two File rows have the same (path, playbook) pair; every
   Playbook has exactly one File row for its own path, that row is flagged
   is_playbook, and a Task whose path is the playbook's path references that
   row. *)
C11_FileUnique ==
    /\ \A f, g \in Kind("File") :
        (objs[f].path = objs[g].path /\ objs[f].playbook = objs[g].playbook)
            => f = g
    /\ \A p \in Kind("Playbook") :
        \E f \in Kind("File") :
            /\ objs[f].playbook = p
            /\ objs[f].path = objs[p].path
            /\ objs[f].is_playbook
    /\ \A t \in Kind("Task") :
        /\ objs[t].file \in Kind("File")
        /\ objs[objs[t].file].playbook = objs[t].playbook
        /\ objs[objs[t].file].path = objs[objs[t].playbook].path
            => objs[objs[t].file].is_playbook

C11_Witness ==
    /\ Returned("task_start")
    /\ objs[objs[task].file].is_playbook
    /\ store[objs[task].file].is_playbook
    /\ \E t \in Kind("Task") :
        /\ t # task
        /\ objs[t].playbook = objs[task].playbook
        /\ objs[objs[t].file].path # objs[objs[task].file].path

(* C12: a run-start hook that returns has written to the handoff file the
   id of its Playbook, not null, after a commit that stored the Playbook;
   and while that Playbook stays current every Play, Task and Result a later
   hook creates references the Playbook with the written id. *)
C12_HandoffId ==
    [][HookStep =>
        /\ (last'.hook = "start" /\ ~last'.exc) =>
            /\ tmpfile' # None
            /\ tmpfile' = objs'[playbook'].id
            /\ store'[playbook'].kind = "Playbook"
            /\ store'[playbook'].id = tmpfile'
            /\ \E i, j \in DOMAIN last'.log :
                /\ i < j
                /\ last'.log[i] = "commit"
                /\ last'.log[j] = "handoff"
        /\ (/\ last'.hook # "start"
            /\ playbook # None
            /\ tmpfile # None
            /\ objs[playbook].id = tmpfile) =>
            /\ tmpfile' = tmpfile
            /\ \A i \in NewRows("Play") \cup NewRows("Task") \cup NewRows("Result") :
                /\ objs'[i].playbook # None
                /\ objs'[objs'[i].playbook].id = tmpfile']_vars

C12_Witness ==
    /\ tmpfile # None
    /\ \E r \in Kind("Result") :
        /\ store[r].kind = "Result"
        /\ store[store[r].playbook].id = tmpfile
        /\ store[store[r].task].playbook = store[r].playbook

(* C13: the parameters a run-start hook stores on its Playbook are the
   host's options with the value of every configured key that is present
   replaced by the sentinel, every other key and value kept, and no key
   added; the host's options are the same after the hook. *)
C13_Redaction ==
    [][(HookStep /\ last'.hook = "start") =>
        LET given == IF options.present THEN options.dict ELSE <<>>
            saved == objs'[playbook'].parameters
        IN  /\ options' = options
            /\ playbook' \in NewRows("Playbook")
            /\ DOMAIN saved = DOMAIN given
            /\ \A k \in DOMAIN saved :
                saved[k] = IF k \in Range(ARA_IGNORE_PARAMETERS)
                           THEN Sentinel ELSE given[k]
            /\ store'[playbook'].kind = "Playbook"
            /\ store'[playbook'].parameters = saved]_vars

C13_Witness ==
    /\ Returned("start")
    /\ options.present
    /\ DOMAIN options.dict = {"password", "verbosity"}
    /\ options.dict["password"] = "secret"
    /\ store[playbook].parameters =
        [password |-> Sentinel, verbosity |-> "2"]

(* C14: an include hook with a Task open records, on a version below
   2.2.0, exactly one Result with status "ok" per listed host and returns;
   on a later version it records nothing and changes no state. *)
C14_IncludeByVersion ==
    [][(HookStep /\ last'.hook = "include" /\ task # None) =>
        IF Legacy
        THEN /\ ~last'.exc
             /\ Cardinality(NewRows("Result")) = Len(last'.arg)
             /\ \A h \in Range(last'.arg) :
                 Cardinality({r \in NewRows("Result") :
                     /\ objs'[objs'[r].host].name = h
                     /\ objs'[r].status = "ok"
                     /\ objs'[r].task = task
                     /\ store'[r].kind = "Result"}) = 1
        ELSE /\ ~last'.exc
             /\ objs' = objs
             /\ store' = store
             /\ <<playbook', play', task', result', loop_items', tmpfile'>> =
                    <<playbook, play, task, result, loop_items, tmpfile>>]_vars

(* C15: the only Task without an end timestamp is the one the current-task
   pointer references; an ended Task ended at or after its start, in memory
   and in the store; after a play-start or run-end hook no Task is open. *)
C15_OneTaskOpen ==
    /\ \A t \in Kind("Task") :
        /\ objs[t].ended = None => t = task
        /\ objs[t].ended # None =>
            /\ objs[t].started # None
            /\ objs[t].ended >= objs[t].started
            /\ store[t].kind = "Task"
            /\ store[t].ended = objs[t].ended
    /\ task # None => objs[task].ended = None
    /\ last.hook \in {"play_start", "stats"} =>
        \A t \in Kind("Task") : objs[t].ended # None

C15_Witness ==
    /\ Returned("task_start")
    /\ objs[task].ended = None
    /\ \E t \in Kind("Task") :
        /\ t # task
        /\ store[t].ended # None
        /\ store[t].ended >= store[t].started

(* C16: the Task a successful task-start hook creates references a Play
   and a Playbook, the Play is open, and the Play belongs to that
   Playbook. *)
C16_TaskBelongs ==
    [][(HookStep /\ last'.hook = "task_start" /\ ~last'.exc) =>
        /\ task' \in NewRows("Task")
        /\ objs'[task'].playbook # None
        /\ objs'[task'].play # None
        /\ objs'[objs'[task'].play].ended = None
        /\ objs'[objs'[task'].play].playbook = objs'[task'].playbook]_vars

(* C17: when a hook creates a File row for a path whose content cannot be
   read, the row has its path and playbook and no content, no FileContent
   row is created, and the hook returns and commits: a task-start has
   created its Task on that File, a run-start whose handoff file is
   writable has created its Playbook. *)
C17_ReadFailureRecovers ==
    [][HookStep =>
        \A f \in NewRows("File") :
            fs[objs'[f].path] = Unreadable =>
                /\ objs'[f].content = None
                /\ objs'[f].playbook = playbook'
                /\ playbook' # None
                /\ store'[f].kind = "File"
                /\ store'[f].content = None
                /\ store'[f].path = objs'[f].path
                /\ NewRows("FileContent") = {}
                /\ store'[playbook'].kind = "Playbook"
                /\ last'.hook = "task_start" =>
                    /\ ~last'.exc
                    /\ task' \in NewRows("Task")
                    /\ store'[task'].kind = "Task"
                    /\ store'[task'].file = f
                /\ last'.hook = "start" =>
                    /\ playbook' \in NewRows("Playbook")
                    /\ last'.arg = <<TRUE>> =>
                        /\ ~last'.exc
                        /\ store'[f].is_playbook]_vars

C17_Witness ==
    /\ Returned("task_start")
    /\ fs[objs[playbook].path] = Unreadable
    /\ \E f \in Kind("File") :
        /\ store[f].is_playbook
        /\ store[f].content = None
    /\ fs[objs[objs[task].file].path] = Unreadable
    /\ ~objs[objs[task].file].is_playbook
    /\ Kind("FileContent") = {}

(* C18: after a task-start hook that returns, the pending-item buffer is
   empty. *)
C18_BufferEmptyAfterTaskStart ==
    [][(HookStep /\ last'.hook = "task_start" /\ ~last'.exc) =>
        loop_items' = <<>>]_vars

(* C19: an outcome hook for a host of the open Task records a Result for
   that host, and the item payloads that Result carries are in no other
   Result of the Task. *)
C19_ItemInOneResult ==
    [][(HookStep /\ last'.hook = "outcome" /\ task # None) =>
        /\ NewRows("Result") # {}
        /\ \A r \in NewRows("Result") :
            \A q \in Kind("Result") :
                objs[q].task = task =>
                    ItemsOf(objs'[r]) \cap ItemsOf(objs[q]) = {}]_vars

(* C20: an outcome hook, or an include hook on a version below 2.2.0 that
   lists at least one host, delivered while no Task is open raises, creates
   and commits nothing, and leaves the pointers and the buffer as they
   were. *)
C20_NoTaskNoEffect ==
    [][(/\ HookStep
        /\ task = None
        /\ \/ last'.hook = "outcome"
           \/ last'.hook = "include" /\ last'.arg # <<>> /\ Legacy) =>
        /\ last'.exc
        /\ objs' = objs
        /\ store' = store
        /\ session' = session
        /\ dirty' = dirty
        /\ <<playbook', play', task', result', loop_items', tmpfile'>> =
               <<playbook, play, task, result, loop_items, tmpfile>>]_vars

C20_Witness ==
    /\ last.hook \in {"outcome", "include"}
    /\ last.exc
    /\ task = None
    /\ play # None
    /\ objs[play].ended = None
    /\ loop_items # <<>>
    /\ Kind("Host") = {}

====
